---- MODULE Spec2Model ----
(***************************************************************************)
(* RedisWriter (lib/redis/rediswriter.cpp): the reconnect timer, the       *)
(* subscription timer, the event loop and the work-queue worker, and the   *)
(* hiredis connection handle and the subscription table they share.        *)
(*                                                                         *)
(* Every access to shared memory (m_Context, the context it points to,     *)
(* m_Subscriptions, the work queue) is one step of the thread making it.   *)
(***************************************************************************)
EXTENDS Integers, Sequences, FiniteSets, TLC

\* ------------------------------------------------------------------ bounds
MaxConn == 2        \* redis contexts allocated in one run
MaxEvents == 2      \* events delivered by the event bus in one run

\* --------------------------------------------------------------- constants
IntMax == 2147483647
IntMin == (-IntMax) - 1
EventTTL == 3600

ReconnectThread == "reconnect"          \* thread running m_ReconnectTimer's callback
SubscriptionThread == "subscription"    \* thread running m_SubscriptionTimer's callback
WorkerThread == "worker"                \* the thread of m_WorkQueue
Threads == {ReconnectThread, SubscriptionThread, WorkerThread}

\* The types HandleEvents registers for; the event bus delivers no other.
EventTypes ==
    {"CheckResult", "StateChange", "Notification", "AcknowledgementSet",
     "AcknowledgementCleared", "CommentAdded", "CommentRemoved", "DowntimeAdded",
     "DowntimeRemoved", "DowntimeStarted", "DowntimeTriggered"}

\* The types of the events drawn in a run.
SampleTypes == {"StateChange"}

\* Subscriber ids, in the order of std::map<String, ...> (String's operator<).
SubscriberOrder == <<"billing", "ops-team">>
Subscribers == {SubscriberOrder[i] : i \in DOMAIN SubscriberOrder}
Rank(name) == CHOOSE i \in DOMAIN SubscriberOrder : SubscriberOrder[i] = name

\* The commands of a publish task that pushes to every subscriber: INCR, SET,
\* EXPIRE and the LPUSHes. A loop sent round again by a dangling iterator pushes
\* no more once its task has issued that many.
MaxTaskCmds == 3 + Len(SubscriberOrder)

\* ------------------------------------------------------- 64-bit store counter
\* A long long is kept as its two 32-bit halves: hi the upper word, lo the
\* lower word read as a signed int (so lo is what the low 32 bits convert to).
LL(hi, lo) == [hi |-> hi, lo |-> lo]

LLInc(v) ==
    IF v.lo = IntMax THEN LL(v.hi, IntMin)
    ELSE IF v.lo = -1 THEN LL(v.hi + 1, 0)
    ELSE LL(v.hi, v.lo + 1)

\* a < b for two lower words read as unsigned.
ULess(a, b) == IF (a >= 0) = (b >= 0) THEN a < b ELSE a >= 0

\* v < w as long long.
LLLess(v, w) == v.hi < w.hi \/ (v.hi = w.hi /\ ULess(v.lo, w.lo))

\* (int)index, rediswriter.cpp:253, 273, 302: the low 32 bits, as a signed int.
NarrowToInt(v) == v.lo

\* icinga:event.idx when the component starts: a fresh store, and a store whose
\* counter is one step from the last index an int holds.
FreshIdx == LL(0, 0)
OldIdx == LL(0, IntMax - 1)

\* --------------------------------------------------------------- configuration
\* GetPath(), GetHost()/GetPort(), GetPassword().
Configs ==
    {[path |-> "", password |-> "secret"],
     [path |-> "/run/redis.sock", password |-> ""]}

\* -------------------------------------------------------------------- replies
NilReply == [type |-> "nil"]                    \* redisCommand returned NULL
CrashReply == [type |-> "crash"]                \* the call never returned
StatusReply == [type |-> "status"]
ErrorReply == [type |-> "error"]
StringReply(s) == [type |-> "string", str |-> s]
IntegerReply(v) == [type |-> "integer", integer |-> v]
ArrayReply(elems) == [type |-> "array", element |-> elems]

\* JSON texts of subscriber records.
OpsText == "{\"types\":[\"StateChange\",\"Notification\"]}"
BillingText == "{\"types\":[\"CommentAdded\"]}"
AuditText == "{\"types\":[\"StateChange\"]}"
NoTypesText == "{\"name\":\"billing\"}"
MalformedText == "{\"types\":["

\* JsonDecode(valueReply->str) assigned to a Dictionary::Ptr, on the texts above:
\* the dictionary's "types" entry, or an exception for a text that does not parse.
JsonDecode(str) ==
    CASE str = OpsText ->
           [ok |-> TRUE, hasTypes |-> TRUE, types |-> <<"StateChange", "Notification">>]
      [] str = BillingText ->
           [ok |-> TRUE, hasTypes |-> TRUE, types |-> <<"CommentAdded">>]
      [] str = AuditText ->
           [ok |-> TRUE, hasTypes |-> TRUE, types |-> <<"StateChange">>]
      [] str = NoTypesText ->
           [ok |-> TRUE, hasTypes |-> FALSE, types |-> <<>>]
      [] OTHER ->
           [ok |-> FALSE, hasTypes |-> FALSE, types |-> <<>>]

\* Array::ToSet<String>.
ToSet(arr) == {arr[i] : i \in DOMAIN arr}

OpsRecord == StringReply(OpsText)
BillingRecord == StringReply(BillingText)

\* The replies to HGETALL icinga:subscription drawn in a run.
HGetAllReplies ==
    {NilReply,
     ErrorReply,
     ArrayReply(<<>>),
     ArrayReply(<<StringReply("billing"), BillingRecord,
                  StringReply("ops-team"), OpsRecord>>),
     ArrayReply(<<StringReply("billing"), StringReply(AuditText),
                  StringReply("ops-team"), OpsRecord>>),
     ArrayReply(<<StringReply("billing"), StringReply(MalformedText),
                  StringReply("ops-team"), OpsRecord>>),
     ArrayReply(<<StringReply("billing"), StringReply(NoTypesText)>>),
     ArrayReply(<<StringReply("billing"), IntegerReply(LL(0, 1))>>),
     ArrayReply(<<StringReply("billing")>>)}

\* ---------------------------------------------------------------------- state
VARIABLES
    cfg,              \* the object's configuration (path, password)
    m_Context,        \* RedisWriter::m_Context: 0 is NULL, else a context's id
    ctx,              \* each redisContext: "unused", "ok", "err" (c->err set), "freed",
                      \* or "lost" once no pointer to it is left
    nconn,            \* contexts allocated so far
    m_Subscriptions,  \* RedisWriter::m_Subscriptions: subscriber id -> EventTypes
    m_WorkQueue,      \* RedisWriter::m_WorkQueue: the tasks not yet run, oldest first
    pc,               \* where each thread is in its callback or task
    fatal,            \* "none", or how the process died: "verify" (VERIFY failed), "crash"
    idx,              \* the store's counter icinga:event.idx
    nevents,          \* events the event bus has delivered so far
    reply,            \* UpdateSubscriptions' reply to HGETALL
    i,                \* UpdateSubscriptions' loop index
    event,            \* HandleEvent's argument
    index,            \* HandleEvent's long long index
    it,               \* HandleEvent's position in m_Subscriptions: rank of the last entry
                      \* visited, or Dangling
    taskCmds,         \* the commands the worker's running publish task has issued, in order
    authed,           \* the contexts on which AUTH has been issued
    published,        \* the events whose publish task ran to its end, with their index
                      \* and the index in their keys
    returned          \* the thread whose callback or task returned in the last step, how,
                      \* and (a publish task) the commands it had issued

vars ==
    <<cfg, m_Context, ctx, nconn, m_Subscriptions, m_WorkQueue, pc, fatal, idx, nevents,
      reply, i, event, index, it, taskCmds, authed, published, returned>>

\* HandleEvent's iterator once the entry it points to has been destroyed.
Dangling == -1

NoReturn == [thread |-> "", how |-> "", cmds |-> <<>>]
NoEvent == [id |-> 0, type |-> ""]
EmptyTable == [s \in {} |-> {}]

InitAt(start) ==
    /\ cfg \in Configs
    /\ m_Context = 0
    /\ ctx = [h \in 1..MaxConn |-> "unused"]
    /\ nconn = 0
    /\ m_Subscriptions = EmptyTable
    /\ m_WorkQueue = <<>>
    /\ pc = [t \in Threads |-> "idle"]
    /\ fatal = "none"
    /\ idx = start
    /\ nevents = 0
    /\ reply = NilReply
    /\ i = 0
    /\ event = NoEvent
    /\ index = LL(0, 0)
    /\ it = 0
    /\ taskCmds = <<>>
    /\ authed = {}
    /\ published = <<>>
    /\ returned = NoReturn

Init == InitAt(FreshIdx)
InitOld == InitAt(OldIdx)

\* ------------------------------------------------------------ hiredis contexts
HandleState(c) == IF c = 0 THEN "null" ELSE ctx[c]

\* The contexts once m_Context stops pointing to context c: nothing refers to c
\* any more (m_Context is the only pointer to it the program keeps).
Unreferenced(c) == IF c = 0 THEN ctx ELSE [ctx EXCEPT ![c] = "lost"]

\* HasContext finding no context, whatever m_Context holds.
HasContext_Never(c) == FALSE

\* HasContext with the test of m_Context left out.
HasContext_NoTest(c) == TRUE

\* if (m_Context) / if (!m_Context): rediswriter.cpp:65, 121, 216.
HasContext(c) == c # 0

\* What redisCommand(c, ...) can return when the store would answer with one of
\* storeReplies: NULL on a transport failure or on a context whose err is set; on
\* a NULL context the call dereferences it; on a freed context anything a
\* use-after-free does (here: the call crashes, or fails with NULL).
CommandOutcomes(c, storeReplies) ==
    CASE HandleState(c) = "ok" -> storeReplies \cup {NilReply}
      [] HandleState(c) = "err" -> {NilReply}
      [] HandleState(c) = "null" -> {CrashReply}
      [] OTHER -> {CrashReply, NilReply}

\* The context after redisCommand(c, ...) returned r: no reply leaves c->err set.
AfterCommand(c, r) ==
    IF HandleState(c) = "ok" /\ r = NilReply THEN [ctx EXCEPT ![c] = "err"] ELSE ctx

\* Thread t returns from its callback or task.
Return(t, how) ==
    /\ pc' = [pc EXCEPT ![t] = "idle"]
    /\ returned' = [thread |-> t, how |-> how, cmds |-> <<>>]

\* The worker returns from a publish task that has issued cmds.
ReturnTask(how, cmds) ==
    /\ pc' = [pc EXCEPT ![WorkerThread] = "idle"]
    /\ returned' = [thread |-> WorkerThread, how |-> how, cmds |-> cmds]
    /\ taskCmds' = <<>>

\* Thread t goes on to label l.
Goto(t, l) ==
    /\ pc' = [pc EXCEPT ![t] = l]
    /\ returned' = NoReturn

\* Thread t stays where it is (a loop goes round).
Stay(t) ==
    /\ UNCHANGED pc
    /\ returned' = NoReturn

\* The process dies in thread who: by abort() after a failed VERIFY ("verify"), or
\* by a signal ("crash"). Nothing of it is left; its configuration and the store
\* remain.
Dies(who, how) ==
    /\ fatal' = how
    /\ m_Context' = 0
    /\ ctx' = [h \in 1..MaxConn |-> "unused"]
    /\ nconn' = 0
    /\ m_Subscriptions' = EmptyTable
    /\ m_WorkQueue' = <<>>
    /\ pc' = [t \in Threads |-> "idle"]
    /\ nevents' = 0
    /\ reply' = NilReply
    /\ i' = 0
    /\ event' = NoEvent
    /\ index' = LL(0, 0)
    /\ it' = 0
    /\ taskCmds' = <<>>
    /\ authed' = {}
    /\ published' = <<>>
    /\ returned' = [thread |-> who, how |-> how, cmds |-> <<>>]
    /\ UNCHANGED <<cfg, idx>>

\* What redisFree(c) can do to a context in state hs: free it ("freed"), nothing
\* for NULL ("none"); a freed context is freed twice, which the allocator catches
\* ("crash") or not ("none").
FreeOutcomes(hs) ==
    CASE hs \in {"ok", "err"} -> {"freed"}
      [] hs = "null" -> {"none"}
      [] OTHER -> {"none", "crash"}

\* redisFree(m_Context): rediswriter.cpp:87, 100, 129, 225, 256, 276, 305.
RedisFree(t) ==
    /\ fatal = "none"
    /\ pc[t] = "free"
    /\ \E o \in FreeOutcomes(HandleState(m_Context)) :
         IF o = "crash"
         THEN Dies(t, "crash")
         ELSE /\ ctx' = IF o = "freed" THEN [ctx EXCEPT ![m_Context] = "freed"] ELSE ctx
              /\ Goto(t, "null")
              /\ UNCHANGED <<cfg, m_Context, nconn, m_Subscriptions, m_WorkQueue, fatal,
                             idx, nevents, reply, i, event, index, it, taskCmds, authed,
                             published>>

\* m_Context = NULL; return: rediswriter.cpp:88, 101, 130, 226, 257, 277, 306.
NullContext(t) ==
    /\ fatal = "none"
    /\ pc[t] = "null"
    /\ m_Context' = 0
    /\ ctx' = Unreferenced(m_Context)
    /\ authed' = authed \ {m_Context}
    /\ IF t = WorkerThread
       THEN ReturnTask("torn", taskCmds)
       ELSE Return(t, "torn") /\ UNCHANGED taskCmds
    /\ UNCHANGED <<cfg, nconn, m_Subscriptions, m_WorkQueue, fatal, idx, nevents,
                   reply, i, event, index, it, published>>

\* ------------------------------------------------------------- TryToReconnect
\* m_ReconnectTimer expires and calls TryToReconnect on the timer's thread (Start
\* connected OnTimerExpired to TryToReconnect itself, rediswriter.cpp:45):
\* if (m_Context) return;  rediswriter.cpp:65-66.
TryToReconnect_Check ==
    /\ fatal = "none"
    /\ pc[ReconnectThread] = "idle"
    /\ HasContext(m_Context) \/ nconn < MaxConn
    /\ IF HasContext(m_Context)
       THEN Return(ReconnectThread, "skip")
       ELSE Goto(ReconnectThread, "r_connect")
    /\ UNCHANGED <<cfg, m_Context, ctx, nconn, m_Subscriptions, m_WorkQueue, fatal, idx,
                   nevents, reply, i, event, index, it, taskCmds, authed, published>>

\* The function TryToReconnect connects with: rediswriter.cpp:73-76.
ConnectFunction(path) == IF path = "" THEN "redisConnect" ELSE "redisConnectUnix"

\* What redisConnect / redisConnectUnix returns: NULL, a context with err set, or
\* a connected context.
ConnectOutcomes(fn) == {"null", "err", "ok"}

\* m_Context = redisConnect(...) / redisConnectUnix(...): rediswriter.cpp:73-76.
TryToReconnect_Connect ==
    /\ fatal = "none"
    /\ pc[ReconnectThread] = "r_connect"
    /\ \E o \in ConnectOutcomes(ConnectFunction(cfg.path)) :
         IF o = "null"
         THEN /\ m_Context' = 0
              /\ ctx' = Unreferenced(m_Context)
              /\ UNCHANGED nconn
         ELSE /\ nconn' = nconn + 1
              /\ ctx' = [Unreferenced(m_Context) EXCEPT ![nconn + 1] = o]
              /\ m_Context' = nconn + 1
    /\ authed' = authed \ {m_Context}
    /\ Goto(ReconnectThread, "r_test")
    /\ UNCHANGED <<cfg, m_Subscriptions, m_WorkQueue, fatal, idx, nevents, reply, i,
                   event, index, it, taskCmds, published>>

\* Whether TryToReconnect takes the failure branch of
\* if (!m_Context || m_Context->err), rediswriter.cpp:78, reading context state hs
\* (a freed context's err field holds anything).
ConnectFailedChoices(hs) ==
    CASE hs = "null" -> {TRUE}
      [] hs = "err" -> {TRUE}
      [] hs = "ok" -> {FALSE}
      [] OTHER -> {TRUE, FALSE}

\* if (!m_Context || m_Context->err) { ...; return; }  rediswriter.cpp:78-96.
TryToReconnect_Test ==
    /\ fatal = "none"
    /\ pc[ReconnectThread] = "r_test"
    /\ \E failed \in ConnectFailedChoices(HandleState(m_Context)) :
         IF failed
         THEN IF HasContext(m_Context)
              THEN Goto(ReconnectThread, "free")
              ELSE Return(ReconnectThread, "connfail")
         ELSE IF cfg.password # ""
              THEN Goto(ReconnectThread, "r_auth")
              ELSE Return(ReconnectThread, "connected")
    /\ UNCHANGED <<cfg, m_Context, ctx, nconn, m_Subscriptions, m_WorkQueue, fatal, idx,
                   nevents, reply, i, event, index, it, taskCmds, authed, published>>

\* What TryToReconnect does with the reply r to AUTH: rediswriter.cpp:99-111. No
\* reply frees the context; an error-typed reply is logged and the context kept.
AuthNext(r) ==
    IF r = NilReply THEN "free"
    ELSE IF r.type = "error" THEN "autherror"
    ELSE "connected"

\* redisCommand(m_Context, "AUTH %s", password): rediswriter.cpp:97-111.
TryToReconnect_Auth ==
    /\ fatal = "none"
    /\ pc[ReconnectThread] = "r_auth"
    /\ \E r \in CommandOutcomes(m_Context, {StatusReply, ErrorReply}) :
         IF r = CrashReply
         THEN Dies(ReconnectThread, "crash")
         ELSE /\ ctx' = AfterCommand(m_Context, r)
              /\ authed' = authed \cup {m_Context}
              /\ IF AuthNext(r) = "free"
                 THEN Goto(ReconnectThread, "free")
                 ELSE Return(ReconnectThread, AuthNext(r))
              /\ UNCHANGED <<cfg, m_Context, nconn, m_Subscriptions, m_WorkQueue, fatal,
                             idx, nevents, reply, i, event, index, it, taskCmds,
                             published>>

\* -------------------------------------------------------- UpdateSubscriptions
\* m_SubscriptionTimer expires and calls UpdateSubscriptions on the timer's thread
\* (Start connected OnTimerExpired to UpdateSubscriptions itself,
\* rediswriter.cpp:51): if (!m_Context) return;  rediswriter.cpp:121-122.
UpdateSubscriptions_Check ==
    /\ fatal = "none"
    /\ pc[SubscriptionThread] = "idle"
    /\ IF HasContext(m_Context)
       THEN Goto(SubscriptionThread, "s_hgetall")
       ELSE Return(SubscriptionThread, "skip")
    /\ UNCHANGED <<cfg, m_Context, ctx, nconn, m_Subscriptions, m_WorkQueue, fatal, idx,
                   nevents, reply, i, event, index, it, taskCmds, authed, published>>

\* TableAfterReply with the table cleared before the reply is looked at.
TableAfterReply_ClearsFirst(table, r) == EmptyTable

\* m_Subscriptions after UpdateSubscriptions has looked at the reply r to HGETALL
\* (rediswriter.cpp:128-137): as it was; m_Subscriptions.clear() comes after the
\* return on no reply.
TableAfterReply(table, r) == table

\* redisCommand(m_Context, "HGETALL icinga:subscription"): rediswriter.cpp:126-137.
UpdateSubscriptions_HGetAll ==
    /\ fatal = "none"
    /\ pc[SubscriptionThread] = "s_hgetall"
    /\ \E r \in CommandOutcomes(m_Context, HGetAllReplies \ {NilReply}) :
         IF r = CrashReply
         THEN Dies(SubscriptionThread, "crash")
         ELSE /\ ctx' = AfterCommand(m_Context, r)
              /\ m_Subscriptions' = TableAfterReply(m_Subscriptions, r)
              /\ IF r = NilReply
                 THEN Goto(SubscriptionThread, "free") /\ UNCHANGED reply
                 ELSE Goto(SubscriptionThread, "s_clear") /\ reply' = r
              /\ UNCHANGED <<cfg, m_Context, nconn, m_WorkQueue, fatal, idx, nevents, i,
                             event, index, it, taskCmds, authed, published>>

\* VERIFY(reply->type == REDIS_REPLY_ARRAY); VERIFY(reply->elements % 2 == 0);
\* rediswriter.cpp:142-143.
VerifyArrayReply(r) == r.type = "array" /\ Len(r.element) % 2 = 0

\* HandleEvent's iterator at position pos after m_Subscriptions.clear(): clear()
\* destroys every entry, the one the iterator of a running loop points to too.
AfterClear(pos) ==
    IF pc[WorkerThread] = "h_fanout" /\ pos # 0 THEN Dangling ELSE pos

\* m_Subscriptions.clear() and the two VERIFYs: rediswriter.cpp:139-145.
UpdateSubscriptions_Clear ==
    /\ fatal = "none"
    /\ pc[SubscriptionThread] = "s_clear"
    /\ IF VerifyArrayReply(reply)
       THEN /\ m_Subscriptions' = EmptyTable
            /\ i' = 0
            /\ it' = AfterClear(it)
            /\ Goto(SubscriptionThread, "s_loop")
            /\ UNCHANGED <<cfg, m_Context, ctx, nconn, m_WorkQueue, fatal, idx, nevents,
                           reply, event, index, taskCmds, authed, published>>
       ELSE Dies(SubscriptionThread, "verify")

\* VERIFY(keyReply->type == REDIS_REPLY_STRING); VERIFY(valueReply->type ==
\* REDIS_REPLY_STRING);  rediswriter.cpp:146-150.
VerifyPair(keyReply, valueReply) ==
    keyReply.type = "string" /\ valueReply.type = "string"

\* InsertSubscription without the catch: a value that fails to decode is entered
\* with no types.
InsertSubscription_KeepsMalformed(table, keyReply, valueReply) ==
    LET info == JsonDecode(valueReply.str)
        rsi == IF info.hasTypes THEN ToSet(info.types) ELSE {}
    IN [s \in DOMAIN table \cup {keyReply.str} |->
           IF s = keyReply.str THEN rsi ELSE table[s]]

\* The table after the body of the loop has run on one key/value pair:
\* rediswriter.cpp:152-171. A value that fails to decode leaves it as it is.
InsertSubscription(table, keyReply, valueReply) ==
    LET info == JsonDecode(valueReply.str)
        rsi == IF info.hasTypes THEN ToSet(info.types) ELSE {}
    IN IF info.ok
       THEN [s \in DOMAIN table \cup {keyReply.str} |->
                IF s = keyReply.str THEN rsi ELSE table[s]]
       ELSE table

\* One round of for (size_t i = 0; i < reply->elements; i += 2), or its end and
\* freeReplyObject(reply): rediswriter.cpp:145-176.
UpdateSubscriptions_Loop ==
    /\ fatal = "none"
    /\ pc[SubscriptionThread] = "s_loop"
    /\ IF i < Len(reply.element)
       THEN IF VerifyPair(reply.element[i + 1], reply.element[i + 2])
            THEN /\ m_Subscriptions' =
                      InsertSubscription(m_Subscriptions,
                                         reply.element[i + 1], reply.element[i + 2])
                 /\ i' = i + 2
                 /\ Stay(SubscriptionThread)
                 /\ UNCHANGED <<cfg, m_Context, ctx, nconn, m_WorkQueue, fatal, idx,
                                nevents, reply, event, index, it, taskCmds, authed,
                                published>>
            ELSE Dies(SubscriptionThread, "verify")
       ELSE /\ reply' = NilReply
            /\ i' = 0
            /\ Return(SubscriptionThread, "done")
            /\ UNCHANGED <<cfg, m_Context, ctx, nconn, m_Subscriptions, m_WorkQueue,
                           fatal, idx, nevents, event, index, it, taskCmds, authed,
                           published>>

\* ---------------------------------------------------------------- HandleEvents
\* queue->WaitForEvent(this) returns an event and the loop enqueues
\* HandleEvent(event): rediswriter.cpp:201-208.
HandleEvents ==
    /\ fatal = "none"
    /\ nevents < MaxEvents
    /\ \E type \in SampleTypes :
         m_WorkQueue' = Append(m_WorkQueue, [id |-> nevents + 1, type |-> type])
    /\ nevents' = nevents + 1
    /\ returned' = NoReturn
    /\ UNCHANGED <<cfg, m_Context, ctx, nconn, m_Subscriptions, pc, fatal, idx, reply, i,
                   event, index, it, taskCmds, authed, published>>

\* ----------------------------------------------------------------- HandleEvent
\* Dequeue taking the newest task.
Dequeue_Newest(q) == [task |-> q[Len(q)], rest |-> SubSeq(q, 1, Len(q) - 1)]

\* The task m_WorkQueue's worker takes from queue q, and what is left: the oldest
\* task goes first.
Dequeue(q) == [task |-> Head(q), rest |-> Tail(q)]

\* The worker of m_WorkQueue takes the oldest task, HandleEvent(event), and calls
\* it: if (!m_Context) return;  rediswriter.cpp:216-217.
HandleEvent_Check ==
    /\ fatal = "none"
    /\ pc[WorkerThread] = "idle"
    /\ m_WorkQueue # <<>>
    /\ m_WorkQueue' = Dequeue(m_WorkQueue).rest
    /\ IF HasContext(m_Context)
       THEN /\ Goto(WorkerThread, "h_incr")
            /\ event' = Dequeue(m_WorkQueue).task
            /\ UNCHANGED taskCmds
       ELSE /\ ReturnTask("skip", taskCmds)
            /\ UNCHANGED event
    /\ UNCHANGED <<cfg, m_Context, ctx, nconn, m_Subscriptions, fatal, idx, nevents,
                   reply, i, index, it, authed, published>>

\* One entry of taskCmds: the command, the index in its key (SET, EXPIRE) or value
\* (LPUSH), the subscriber in its key (LPUSH), its other argument (SET: the body;
\* EXPIRE: the seconds) and the reply's type.
Cmd(cmd, key, sub, arg, r) ==
    [cmd |-> cmd, key |-> key, sub |-> sub, arg |-> arg, reply |-> r.type]

\* ReplyNext without the return on an error-typed reply.
ReplyNext_ErrorGoesOn(r, cont) ==
    IF r = NilReply THEN "free"
    ELSE cont

\* Where HandleEvent goes after a reply r to SET, EXPIRE or LPUSH, cont being the
\* next step: no reply frees the context, an error-typed reply returns.
\* rediswriter.cpp:255-271, 275-291, 304-320.
ReplyNext(r, cont) ==
    IF r = NilReply THEN "free"
    ELSE IF r.type = "error" THEN "return"
    ELSE cont

\* Where HandleEvent goes after the reply r to INCR: as ReplyNext, but any other
\* reply than an integer fails VERIFY. rediswriter.cpp:224-248.
IncrNext(r) ==
    IF r = NilReply THEN "free"
    ELSE IF r.type = "error" THEN "return"
    ELSE IF r.type = "integer" THEN "h_set"
    ELSE "verify"

\* The worker after redisCommand returned r (no crash), cmds being the commands
\* of its task so far and next where it goes; a task that returns leaves its
\* locals behind.
WorkerMove(r, cmds, next, newIndex, newIt) ==
    /\ ctx' = AfterCommand(m_Context, r)
    /\ IF next \in {"free", "return"}
       THEN /\ IF next = "free"
               THEN Goto(WorkerThread, "free") /\ taskCmds' = cmds
               ELSE ReturnTask("error", cmds)
            /\ event' = NoEvent
            /\ index' = LL(0, 0)
            /\ it' = 0
       ELSE /\ Goto(WorkerThread, next)
            /\ taskCmds' = cmds
            /\ index' = newIndex
            /\ it' = newIt
            /\ UNCHANGED event

\* redisCommand(m_Context, "INCR icinga:event.idx"): rediswriter.cpp:222-248.
HandleEvent_Incr ==
    /\ fatal = "none"
    /\ pc[WorkerThread] = "h_incr"
    /\ \E r \in CommandOutcomes(m_Context,
                                {IntegerReply(LLInc(idx)), ErrorReply, StatusReply}) :
         IF r = CrashReply
         THEN Dies(WorkerThread, "crash")
         ELSE IF IncrNext(r) = "verify"
         THEN Dies(WorkerThread, "verify")
         ELSE /\ idx' = IF r.type = "integer" THEN r.integer ELSE idx
              /\ WorkerMove(r, Append(taskCmds, Cmd("INCR", 0, "", 0, r)), IncrNext(r),
                            IF r.type = "integer" THEN r.integer ELSE index, it)
              /\ UNCHANGED <<cfg, m_Context, nconn, m_Subscriptions, m_WorkQueue, fatal,
                             nevents, reply, i, authed, published>>

\* JsonEncode(event): the body names the event it encodes.
JsonEncode(ev) == ev.id

\* redisCommand(m_Context, "SET icinga:event.%d %s", (int)index, body):
\* rediswriter.cpp:250-271.
HandleEvent_Set ==
    /\ fatal = "none"
    /\ pc[WorkerThread] = "h_set"
    /\ \E r \in CommandOutcomes(m_Context, {StatusReply, ErrorReply}) :
         IF r = CrashReply
         THEN Dies(WorkerThread, "crash")
         ELSE /\ WorkerMove(r, Append(taskCmds, Cmd("SET", NarrowToInt(index), "",
                                                   JsonEncode(event), r)),
                            ReplyNext(r, "h_expire"), index, it)
              /\ UNCHANGED <<cfg, m_Context, nconn, m_Subscriptions, m_WorkQueue, fatal,
                             idx, nevents, reply, i, authed, published>>

\* redisCommand(m_Context, "EXPIRE icinga:event.%d 3600", (int)index, body):
\* rediswriter.cpp:273-293.
HandleEvent_Expire ==
    /\ fatal = "none"
    /\ pc[WorkerThread] = "h_expire"
    /\ \E r \in CommandOutcomes(m_Context, {StatusReply, ErrorReply}) :
         IF r = CrashReply
         THEN Dies(WorkerThread, "crash")
         ELSE /\ WorkerMove(r, Append(taskCmds, Cmd("EXPIRE", NarrowToInt(index), "",
                                                   EventTTL, r)),
                            ReplyNext(r, "h_fanout"), index, 0)
              /\ UNCHANGED <<cfg, m_Context, nconn, m_Subscriptions, m_WorkQueue, fatal,
                             idx, nevents, reply, i, authed, published>>

\* The positions ++it can go on from: its own, or for a dangling iterator (whose
\* entry's memory holds anything, another entry of the refilled table included)
\* any position of the table.
Landings(pos) == IF pos = Dangling THEN 0..Len(SubscriberOrder) ELSE {pos}

\* The entries of table the iterator at position pos has still to visit.
Remaining(table, pos) == {s \in DOMAIN table : Rank(s) > pos}

\* The entry ++it moves to: the least key after pos.
NextEntry(table, pos) ==
    CHOOSE s \in Remaining(table, pos) :
        \A o \in Remaining(table, pos) : Rank(s) <= Rank(o)

\* if (rsi.EventTypes.find(type) == rsi.EventTypes.end()) continue;
\* rediswriter.cpp:299-300.
Matches(eventTypes, type) == type \in eventTypes

\* The end of for (kv : m_Subscriptions) and of HandleEvent: rediswriter.cpp:295,
\* 321-322. The loop reads the table as it is when the round runs.
HandleEvent_FanOutEnd ==
    /\ fatal = "none"
    /\ pc[WorkerThread] = "h_fanout"
    /\ \E pos \in Landings(it) : Remaining(m_Subscriptions, pos) = {}
    /\ published' = Append(published, [id |-> event.id, index |-> index,
                                       key |-> NarrowToInt(index)])
    /\ ReturnTask("done", taskCmds)
    /\ event' = NoEvent
    /\ index' = LL(0, 0)
    /\ it' = 0
    /\ UNCHANGED <<cfg, m_Context, ctx, nconn, m_Subscriptions, m_WorkQueue, fatal, idx,
                   nevents, reply, i, authed>>

\* One round of for (kv : m_Subscriptions): rediswriter.cpp:295-321. Stepping a
\* dangling iterator can also end the process.
HandleEvent_FanOut ==
    /\ fatal = "none"
    /\ pc[WorkerThread] = "h_fanout"
    /\ \/ /\ it = Dangling
          /\ Dies(WorkerThread, "crash")
       \/ \E pos \in Landings(it) :
            /\ Remaining(m_Subscriptions, pos) # {}
            /\ LET name == NextEntry(m_Subscriptions, pos) IN
                 IF Matches(m_Subscriptions[name], event.type)
                 THEN /\ Len(taskCmds) < MaxTaskCmds
                      /\ \E r \in CommandOutcomes(m_Context, {StatusReply, ErrorReply}) :
                           IF r = CrashReply
                           THEN Dies(WorkerThread, "crash")
                           ELSE /\ WorkerMove(r, Append(taskCmds,
                                                        Cmd("LPUSH", NarrowToInt(index),
                                                            name, 0, r)),
                                              ReplyNext(r, "h_fanout"), index,
                                              Rank(name))
                                /\ UNCHANGED <<cfg, m_Context, nconn, m_Subscriptions,
                                               m_WorkQueue, fatal, idx, nevents, reply,
                                               i, authed, published>>
                 ELSE /\ it' = Rank(name)
                      /\ Stay(WorkerThread)
                      /\ UNCHANGED <<cfg, m_Context, ctx, nconn, m_Subscriptions,
                                     m_WorkQueue, fatal, idx, nevents, reply, i, event,
                                     index, taskCmds, authed, published>>

\* ------------------------------------------------------------- specification
Next ==
    \/ TryToReconnect_Check
    \/ TryToReconnect_Connect
    \/ TryToReconnect_Test
    \/ TryToReconnect_Auth
    \/ UpdateSubscriptions_Check
    \/ UpdateSubscriptions_HGetAll
    \/ UpdateSubscriptions_Clear
    \/ UpdateSubscriptions_Loop
    \/ HandleEvents
    \/ HandleEvent_Check
    \/ HandleEvent_Incr
    \/ HandleEvent_Set
    \/ HandleEvent_Expire
    \/ HandleEvent_FanOut
    \/ HandleEvent_FanOutEnd
    \/ \E t \in Threads : RedisFree(t)
    \/ \E t \in Threads : NullContext(t)

\* The component started against a fresh store.
Spec == Init /\ [][Next]_vars

\* The component started against a store that has handed out IntMax - 1 indices.
SpecOld == InitOld /\ [][Next]_vars

\* ------------------------------------------------------------------- claims
\* Thread t is between its first and its last access to m_Context.
TouchesContext(t) ==
    pc[t] \in {"r_connect", "r_test", "r_auth", "s_hgetall",
               "h_incr", "h_set", "h_expire", "free", "null"}

\* This step is thread t going down (abort or signal).
GoesDown(t) == fatal = "none" /\ fatal' # "none" /\ returned'.thread = t

\* This step is thread t calling redisCommand.
IssuesCommand(t) ==
    CASE t = WorkerThread ->
           /\ pc[t] \in {"h_incr", "h_set", "h_expire", "h_fanout"}
           /\ \/ Len(taskCmds') = Len(taskCmds) + 1
              \/ Len(returned'.cmds) = Len(taskCmds) + 1
              \/ GoesDown(t)
      [] t = ReconnectThread ->
           /\ pc[t] = "r_auth"
           /\ pc'[t] = "free" \/ returned'.thread = t
      [] OTHER ->
           /\ pc[t] = "s_hgetall"
           /\ pc'[t] \in {"free", "s_clear"} \/ returned'.thread = t

\* This step is thread t returning from its callback or task.
Returns(t) == returned'.thread = t /\ fatal' = "none"

\* UpdateSubscriptions has cleared the table and not yet put back every record.
RefreshInProgress ==
    pc[SubscriptionThread] = "s_loop" /\ i < Len(reply.element)

\* C1: at most one of TryToReconnect, UpdateSubscriptions and HandleEvent is at any
\* instant between its first and its last access to m_Context.
C1_OneOperationOnContext ==
    Cardinality({t \in Threads : TouchesContext(t)}) <= 1

\* C2: whenever HandleEvent's fan-out reads m_Subscriptions, no refresh is in
\* progress on it: the table is the empty one or one a completed
\* UpdateSubscriptions left.
C2_FanOutReadsCompleteTable ==
    ~(fatal = "none" /\ pc[WorkerThread] = "h_fanout" /\ RefreshInProgress)

\* C3: every store command is issued on a context that is established when the
\* command is issued (not NULL, not failed, not freed).
C3_CommandsOnEstablishedContext ==
    [][\A t \in Threads : IssuesCommand(t) => HandleState(m_Context) = "ok"]_vars

\* The commands of the worker's task: the running one's so far, or all those of
\* the one that returned in the last step.
TaskLog == taskCmds \o returned.cmds

\* C4: every LPUSH of an index in a publish task comes after a SET of the event's
\* body under that index in the same task that got a reply other than an error.
C4_PushAfterStore ==
    \A k \in DOMAIN TaskLog :
        TaskLog[k].cmd = "LPUSH" =>
            \E j \in 1..(k - 1) :
                /\ TaskLog[j].cmd = "SET"
                /\ TaskLog[j].key = TaskLog[k].key
                /\ TaskLog[j].reply \notin {"nil", "error", "crash"}

\* C4's case: a publish task has issued an LPUSH.
C4_Witness == \E k \in DOMAIN TaskLog : TaskLog[k].cmd = "LPUSH"

\* C5: the indices under which completed events are stored and fanned out are
\* strictly increasing in publish order (hence pairwise distinct).
C5_IndicesIncrease ==
    \A j, k \in DOMAIN published :
        j < k => published[j].key < published[k].key

\* C6: a publish task whose INCR got an error-typed reply has issued no other
\* command and leaves the connection Disconnected (m_Context NULL) when it ends.
C6_IncrErrorDisconnects ==
    [][(/\ Returns(WorkerThread)
        /\ Len(returned'.cmds) > 0
        /\ returned'.cmds[1].cmd = "INCR"
        /\ returned'.cmds[1].reply = "error")
       => (Len(returned'.cmds) = 1 /\ m_Context' = 0)]_vars

\* C7: a publish task in which SET, EXPIRE or an LPUSH failed (no reply, or an
\* error-typed reply) issued no command after the failed one and leaves the
\* connection Disconnected (m_Context NULL) when it ends.
C7_CommandFailureDisconnects ==
    [][Returns(WorkerThread) =>
        \A k \in DOMAIN returned'.cmds :
            (/\ returned'.cmds[k].cmd \in {"SET", "EXPIRE", "LPUSH"}
             /\ returned'.cmds[k].reply \in {"nil", "error"})
            => (k = Len(returned'.cmds) /\ m_Context' = 0)]_vars

\* C8: when a TryToReconnect run ends in which the connect failed (no context, a
\* transport error, no reply to AUTH, or AUTH answered with an error), no
\* connection handle is retained: m_Context is NULL.
C8_FailedConnectKeepsNoHandle ==
    [][(/\ Returns(ReconnectThread)
        /\ returned'.how \in {"connfail", "torn", "autherror"})
       => m_Context' = 0]_vars

\* C9: with a password configured, every INCR, SET, EXPIRE, LPUSH and HGETALL on a
\* context comes after an AUTH on that context; with none, no AUTH is issued.
C9_AuthPrecedesCommands ==
    [][/\ \A t \in {WorkerThread, SubscriptionThread} :
            (IssuesCommand(t) /\ cfg.password # "" /\ HasContext(m_Context))
            => m_Context \in authed
       /\ cfg.password = "" => authed' = {}]_vars

\* C10: UpdateSubscriptions called while m_Context is NULL returns at once: it
\* issues no command and leaves m_Subscriptions, m_Context and every context as
\* they were.
C10_RefreshWhileDisconnectedIsNoOp ==
    [][(/\ pc[SubscriptionThread] = "idle"
        /\ m_Context = 0
        /\ \/ pc'[SubscriptionThread] # "idle"
           \/ returned'.thread = SubscriptionThread)
       => (/\ pc'[SubscriptionThread] = "idle"
           /\ returned'.thread = SubscriptionThread
           /\ returned'.how = "skip"
           /\ UNCHANGED <<m_Subscriptions, m_Context, ctx>>)]_vars

\* C10's case: UpdateSubscriptions has returned at once on a NULL m_Context while
\* the table held entries, and the entries are still there.
C10_Witness ==
    /\ returned.thread = SubscriptionThread
    /\ returned.how = "skip"
    /\ m_Context = 0
    /\ m_Subscriptions # EmptyTable

\* The records of an HGETALL reply r (its key/value pairs), by position.
Records(r) == 1..(Len(r.element) \div 2)
RecordKey(r, k) == r.element[2 * k - 1].str
RecordValue(r, k) == r.element[2 * k].str

\* r is an array of string pairs in which every value is a well-formed record (it
\* decodes and holds a "types" list) or fails to decode.
WellFormedOrMalformed(r) ==
    /\ r.type = "array"
    /\ Len(r.element) % 2 = 0
    /\ \A j \in DOMAIN r.element : r.element[j].type = "string"
    /\ \A k \in Records(r) :
          JsonDecode(RecordValue(r, k)).ok => JsonDecode(RecordValue(r, k)).hasTypes

\* UpdateSubscriptions has run its loop over the whole reply.
RefreshComplete ==
    fatal = "none" /\ pc[SubscriptionThread] = "s_loop" /\ i >= Len(reply.element)

\* C11: when a refresh has run to completion on a reply of well-formed and
\* malformed records, the table's keys are exactly the ids of the well-formed
\* records, each mapped to the set of its "types" entries; nothing else is in it.
C11_RefreshInstallsWellFormed ==
    (RefreshComplete /\ WellFormedOrMalformed(reply)) =>
        LET wf == {k \in Records(reply) : JsonDecode(RecordValue(reply, k)).ok}
        IN /\ DOMAIN m_Subscriptions = {RecordKey(reply, k) : k \in wf}
           /\ \A k \in wf :
                 LET types == JsonDecode(RecordValue(reply, k)).types
                 IN m_Subscriptions[RecordKey(reply, k)] =
                        {types[j] : j \in DOMAIN types}

\* C11's case: a refresh has completed on a reply with one malformed and one
\* well-formed record, and installed the well-formed one alone.
C11_Witness ==
    /\ RefreshComplete
    /\ WellFormedOrMalformed(reply)
    /\ \E k \in Records(reply) : ~JsonDecode(RecordValue(reply, k)).ok
    /\ DOMAIN m_Subscriptions = {"ops-team"}

\* The LPUSH commands of the worker's task issued for subscriber name.
Pushes(name) ==
    {k \in DOMAIN TaskLog : TaskLog[k].cmd = "LPUSH" /\ TaskLog[k].sub = name}

\* C12: when a publish task ends in which every command succeeded, it has issued
\* exactly one LPUSH for each subscriber of the table whose filter holds the
\* event's type, none for the other subscribers of the table, and none for anyone
\* else.
C12_OnePushPerMatch ==
    [][(Returns(WorkerThread) /\ returned'.how = "done") =>
        /\ \A name \in DOMAIN m_Subscriptions :
              Cardinality(Pushes(name)) =
                  IF event.type \in m_Subscriptions[name] THEN 1 ELSE 0
        /\ \A name \in Subscribers \ DOMAIN m_Subscriptions : Pushes(name) = {}]_vars

\* C13: whatever the store replies to a command, no operation aborts the process:
\* no VERIFY on a reply fails.
C13_NoReplyIsFatal == fatal # "verify"

\* C14: publish tasks run in the order the events were received (ids count the
\* events as HandleEvents receives them): the queue holds them in that order, the
\* task that runs is older than every queued one and newer than every finished
\* one, and the events published come in that order with increasing indices.
C14_TasksRunInOrder ==
    /\ \A j, k \in DOMAIN m_WorkQueue :
          j < k => m_WorkQueue[j].id < m_WorkQueue[k].id
    /\ \A k \in DOMAIN m_WorkQueue :
          /\ event # NoEvent => event.id < m_WorkQueue[k].id
          /\ \A j \in DOMAIN published : published[j].id < m_WorkQueue[k].id
    /\ \A j \in DOMAIN published : event # NoEvent => published[j].id < event.id
    /\ \A j, k \in DOMAIN published :
          j < k => /\ published[j].id < published[k].id
                   /\ LLLess(published[j].index, published[k].index)

\* C14's case: two events have been published, one after the other.
C14_Witness == Len(published) = 2

\* A step of the reconnect timer's thread: the tick calling TryToReconnect, or a
\* step of TryToReconnect.
ReconnectStep ==
    \/ TryToReconnect_Check
    \/ TryToReconnect_Connect
    \/ TryToReconnect_Test
    \/ TryToReconnect_Auth
    \/ RedisFree(ReconnectThread)
    \/ NullContext(ReconnectThread)

\* C15: the supervisor has no terminal state: whenever the connection is
\* Disconnected (m_Context NULL; contexts are left to connect with), the reconnect
\* tick can still fire or TryToReconnect can go on, whatever failed before.
C15_ReconnectNeverDisabled ==
    (m_Context = 0 /\ nconn < MaxConn) => ENABLED ReconnectStep

\* C16: TryToReconnect called by a tick while m_Context is set returns at once: it
\* opens no transport, issues no AUTH and no other command, and leaves m_Context,
\* every context and m_Subscriptions as they were.
C16_ReconnectWhileConnectedIsNoOp ==
    [][(/\ pc[ReconnectThread] = "idle"
        /\ m_Context # 0
        /\ \/ pc'[ReconnectThread] # "idle"
           \/ returned'.thread = ReconnectThread)
       => (/\ pc'[ReconnectThread] = "idle"
           /\ returned'.thread = ReconnectThread
           /\ returned'.how = "skip"
           /\ UNCHANGED <<m_Context, ctx, nconn, authed, m_Subscriptions>>)]_vars

\* C16's case: a tick has found the connection established and returned at once,
\* the connection and a non-empty table being as they were.
C16_Witness ==
    /\ returned.thread = ReconnectThread
    /\ returned.how = "skip"
    /\ HandleState(m_Context) = "ok"
    /\ m_Subscriptions # EmptyTable

\* C17: each event causes at most one INCR and at most one LPUSH per subscriber:
\* no event is in the queue, running or published twice, and the task of an event
\* holds at most one INCR and, for each subscriber, at most one LPUSH; a task
\* skipped for want of a connection has issued nothing.
C17_AtMostOnce ==
    /\ \A j, k \in DOMAIN m_WorkQueue : j # k => m_WorkQueue[j].id # m_WorkQueue[k].id
    /\ \A j \in DOMAIN m_WorkQueue :
          /\ m_WorkQueue[j].id # event.id
          /\ \A k \in DOMAIN published : published[k].id # m_WorkQueue[j].id
    /\ \A j, k \in DOMAIN published : j # k => published[j].id # published[k].id
    /\ Cardinality({k \in DOMAIN TaskLog : TaskLog[k].cmd = "INCR"}) <= 1
    /\ \A name \in Subscribers : Cardinality(Pushes(name)) <= 1
    /\ (returned.thread = WorkerThread /\ returned.how = "skip") => TaskLog = <<>>

\* C18: when a publish task ends, every body it stored (a SET that got a success
\* reply) has had its expiration set: an EXPIRE of EventTTL on the same key, later
\* in the task, that got a success reply.
C18_StoredBodyExpires ==
    [][Returns(WorkerThread) =>
        \A k \in DOMAIN returned'.cmds :
            (returned'.cmds[k].cmd = "SET" /\ returned'.cmds[k].reply = "status") =>
                \E j \in (k + 1)..Len(returned'.cmds) :
                    /\ returned'.cmds[j].cmd = "EXPIRE"
                    /\ returned'.cmds[j].key = returned'.cmds[k].key
                    /\ returned'.cmds[j].arg = EventTTL
                    /\ returned'.cmds[j].reply \notin {"nil", "error"}]_vars

\* The long long an int converts to (sign extension).
LLOfInt(k) == LL(IF k < 0 THEN -1 ELSE 0, k)

\* C19: the index written into the key of SET and EXPIRE and into the value of
\* every LPUSH of a publish task is the value INCR returned to that task.
C19_KeyIsIndex ==
    pc[WorkerThread] \in {"h_expire", "h_fanout"} =>
        \A k \in DOMAIN taskCmds :
            taskCmds[k].cmd \in {"SET", "EXPIRE", "LPUSH"} =>
                LLOfInt(taskCmds[k].key) = index

\* C20: a refresh whose HGETALL gets no reply leaves m_Subscriptions as it was,
\* from the reply to its return, and returns with the connection torn down
\* (m_Context NULL).
C20_FailedRefreshKeepsTable ==
    [][/\ (pc[SubscriptionThread] = "s_hgetall" /\ pc'[SubscriptionThread] = "free")
           => UNCHANGED m_Subscriptions
       /\ (pc[SubscriptionThread] \in {"free", "null"} /\ fatal' = "none")
           => UNCHANGED m_Subscriptions
       /\ (Returns(SubscriptionThread) /\ returned'.how = "torn")
           => m_Context' = 0]_vars

\* C20's case: a refresh has returned after no reply to HGETALL; the connection
\* is down and the table installed before is still there.
C20_Witness ==
    /\ returned.thread = SubscriptionThread
    /\ returned.how = "torn"
    /\ m_Context = 0
    /\ m_Subscriptions # EmptyTable

====
